---- MODULE Spec2Model ----
(***************************************************************************)
(* Ares Frontier resource service: the Resource table, the ChangeHistory   *)
(* ledger, the update-quantity transaction, the create request, the        *)
(* per-minute monitoring cron and the Socket.IO broadcast.                 *)
(*                                                                         *)
(* Storage is a transactional relational store (PostgreSQL, READ COMMITTED)*)
(* reached through Sequelize: every awaited storage call is one step, a    *)
(* transaction's writes are private until its commit applies them at once. *)
(***************************************************************************)
EXTENDS Integers, Sequences, FiniteSets, TLC

\* ------------------------------------------------------------------ bounds
\* largest quantity a request may carry (requests also carry -1 and absent)
MaxQty == 1
\* requests and cron firings started in one behaviour
MaxOps == 2
\* entries of the ledger the history reads are applied to
MaxEntries == 2

\* ------------------------------------------------------------- program data
\* a request field that is undefined / null
absent == -100

\* catalog of resource types (ResourceData rows), immutable after seeding
Catalog == {1, 2, 3, 4}

CategoryOf(t) ==
    CASE t = 1 -> "oxygen"
      [] t = 2 -> "water"
      [] t = 3 -> "food"
      [] t = 4 -> "spare_parts"

validCategories == {"food", "oxygen", "water", "spare_parts"}

\* the request handlers: a request takes the first free one
Updaters == {"u1", "u2"}
Creators == {"c1", "c2"}

\* a handler is free before its first request and once it has responded; its
\* record then still shows the last response
Free(h) == h.pc \in {"idle", "done"}

\* request inputs
QtyInputs == {absent} \cup (-1..MaxQty)
TypeInputs == {absent, 1, 2, 5}
IdInputs == {1, 2, 3}
CategoryInputs == {"oxygen", "spare_parts", "fuel"}

\* changeType of an entry written by the cron (the column is left unset)
NoChange == "none"

VARIABLES
    resources,   \* committed Resource rows: [id, resourceDataId, quantity]
    history,     \* committed ChangeHistory rows, in commit order
    now,         \* the clock createdAt is taken from
    upd,         \* update-quantity requests in flight
    cre,         \* create requests in flight
    snap,        \* the monitoring cron's firing
    rd,          \* the by-category read request in flight
    ops,         \* requests and firings started so far
    lastEmit,    \* the last resources:update broadcast emitted
    view,        \* an enriched resource view: category, quantity, status
    sweep,       \* outcome of the last firing of the history cleanup cron
    reply        \* the last response of a history read (list or statistics)

vars == <<resources, history, now, upd, cre, snap, rd, ops, lastEmit, view, sweep, reply>>

\* ------------------------------------------------------------ level policy
\* thresholds of the four categories (README "Niveles Estandar por Categoria")
OxygenMinimum == 3000
OxygenCritical == 5000
OxygenMaximum == 25000
WaterMinimum == 50
WaterCritical == 80
WaterMaximum == 500
SparePartsMinimum == 10
SparePartsCritical == 20
SparePartsMaximum == 100
FoodMinimum == 5
FoodCritical == 10
FoodMaximum == 70

getLevelsByCategory(category) ==
    CASE category = "oxygen" ->
           [minimumLevel |-> OxygenMinimum, criticalLevel |-> OxygenCritical,
            maximumLevel |-> OxygenMaximum]
      [] category = "water" ->
           [minimumLevel |-> WaterMinimum, criticalLevel |-> WaterCritical,
            maximumLevel |-> WaterMaximum]
      [] category = "spare_parts" ->
           [minimumLevel |-> SparePartsMinimum, criticalLevel |-> SparePartsCritical,
            maximumLevel |-> SparePartsMaximum]
      [] category = "food" ->
           [minimumLevel |-> FoodMinimum, criticalLevel |-> FoodCritical,
            maximumLevel |-> FoodMaximum]

\* the status expression of enrichResourceWithLevels
deriveStatus(quantity, levels) ==
    IF quantity <= levels.criticalLevel THEN "critical"
    ELSE IF quantity <= levels.minimumLevel THEN "low"
    ELSE "normal"

\* the enriched view of one Resource row
enrichResourceWithLevels(r) ==
    [id |-> r.id, quantity |-> r.quantity, resourceDataId |-> r.resourceDataId,
     status |-> deriveStatus(r.quantity, getLevelsByCategory(CategoryOf(r.resourceDataId)))]

\* ------------------------------------------------------------------ storage
HasRow(id) == \E r \in resources : r.id = id

Row(id) == CHOOSE r \in resources : r.id = id

TypeTracked(t) == \E r \in resources : r.resourceDataId = t

\* the serial primary key the store gives the next Resource row
NextId == Cardinality(resources) + 1

NoEntry == [stock |-> 0, resourceId |-> 0, changeType |-> NoChange, createdAt |-> 0 - 1]

\* variant: the check of the sign is missing
invalidQuantityAbsentOnly(quantity) == quantity = absent

\* quantity === undefined || quantity === null || quantity < 0
invalidQuantity(quantity) == quantity = absent \/ (quantity # absent /\ quantity < 0)

\* getAllResourcesService: every row, enriched
getAllResourcesService == {enrichResourceWithLevels(r) : r \in resources}

\* isResourceCritical(quantity, category): at or below the critical level of
\* the category
isResourceCritical(quantity, category) ==
    quantity <= getLevelsByCategory(category).criticalLevel

\* variant: the rows are enriched without being filtered
getCriticalResourcesUnfiltered == {enrichResourceWithLevels(r) : r \in resources}

\* getCriticalResourcesService: the rows that pass isResourceCritical, enriched
getCriticalResourcesService ==
    {enrichResourceWithLevels(r) :
        r \in {x \in resources : isResourceCritical(x.quantity, CategoryOf(x.resourceDataId))}}

\* ------------------------------------------------- update-quantity request
UpdIdle ==
    [pc |-> "idle", id |-> 0, quantity |-> 0, rdid |-> 0, oldQuantity |-> 0,
     wrote |-> FALSE, entry |-> NoEntry, status |-> 0, result |-> "", db |-> FALSE,
     seen |-> {}, emits |-> 0, committed |-> FALSE]

\* the response leaves the handler: only the request and its outcome remain
\* (emits counts the broadcasts the request has emitted, committed tells
\* whether its transaction was committed)
UpdDone(u, status, result) ==
    [UpdIdle EXCEPT !.pc = "done", !.quantity = u.quantity,
                    !.status = status, !.result = result, !.db = u.db,
                    !.emits = u.emits, !.committed = u.committed]

\* a transaction that has written the row holds its row lock until it ends
HoldsLock(p, id) ==
    upd[p].pc \in {"insert", "commit"} /\ upd[p].wrote /\ upd[p].id = id

changeTypeOf(quantity, oldQuantity) ==
    IF quantity > oldQuantity THEN "increase"
    ELSE IF quantity < oldQuantity THEN "decrease"
    ELSE "update"

\* controller reads the request; the service validates the quantity first
UpdStart(p) ==
    /\ Free(upd[p])
    /\ p = "u2" => ~Free(upd["u1"])
    /\ ops < MaxOps
    /\ ops' = ops + 1
    /\ \E id \in IdInputs, q \in QtyInputs :
         LET u == [UpdIdle EXCEPT !.id = id, !.quantity = q] IN
         upd' = [upd EXCEPT ![p] =
                   IF invalidQuantity(q)
                   THEN UpdDone(u, 400, "INVALID_QUANTITY")
                   ELSE [u EXCEPT !.pc = "find"]]
    /\ UNCHANGED <<resources, history, now, cre, snap, rd, lastEmit, view, sweep, reply>>

\* Resource.findByPk(id), outside any transaction
UpdFind(p) ==
    /\ upd[p].pc = "find"
    /\ LET u == [upd[p] EXCEPT !.db = TRUE] IN
       \/ /\ ~HasRow(u.id)
          /\ upd' = [upd EXCEPT ![p] = UpdDone(u, 404, "RESOURCE_NOT_FOUND")]
       \/ /\ HasRow(u.id)
          /\ upd' = [upd EXCEPT ![p] =
                       [u EXCEPT !.pc = "begin",
                                 !.rdid = Row(u.id).resourceDataId,
                                 !.oldQuantity = Row(u.id).quantity]]
       \/ upd' = [upd EXCEPT ![p] = UpdDone(u, 500, "fault")]
    /\ UNCHANGED <<resources, history, now, cre, snap, rd, ops, lastEmit, view, sweep, reply>>

\* sequelize.transaction(): a fault here is thrown outside the try block
UpdBegin(p) ==
    /\ upd[p].pc = "begin"
    /\ LET u == [upd[p] EXCEPT !.db = TRUE] IN
       \/ upd' = [upd EXCEPT ![p] = [u EXCEPT !.pc = "save"]]
       \/ upd' = [upd EXCEPT ![p] = UpdDone(u, 500, "fault")]
    /\ UNCHANGED <<resources, history, now, cre, snap, rd, ops, lastEmit, view, sweep, reply>>

\* variant: save() without { transaction } writes the row at once, outside the
\* transaction
UpdSaveNoTx(p) ==
    /\ upd[p].pc = "save"
    /\ LET u == upd[p] IN
       \/ /\ u.quantity = u.oldQuantity
          /\ upd' = [upd EXCEPT ![p] = [u EXCEPT !.pc = "insert"]]
          /\ UNCHANGED resources
       \/ /\ u.quantity # u.oldQuantity
          /\ \A o \in Updaters \ {p} : ~HoldsLock(o, u.id)
          /\ \/ /\ upd' = [upd EXCEPT ![p] = [u EXCEPT !.pc = "insert", !.db = TRUE]]
                /\ resources' = {IF r.id = u.id THEN [r EXCEPT !.quantity = u.quantity] ELSE r
                                  : r \in resources}
             \/ /\ upd' = [upd EXCEPT ![p] = UpdDone([u EXCEPT !.db = TRUE], 500, "rollback")]
                /\ UNCHANGED resources
    /\ UNCHANGED <<history, now, cre, snap, rd, ops, lastEmit, view, sweep, reply>>

\* resource.quantity = quantity; resource.save({ transaction }).
\* save() sends an UPDATE only for attributes that differ from the values the
\* instance was loaded with; with none it resolves without a query.  The UPDATE
\* waits for the row lock and its write stays private to the transaction.
UpdSave(p) ==
    /\ upd[p].pc = "save"
    /\ LET u == upd[p] IN
       \/ /\ u.quantity = u.oldQuantity
          /\ upd' = [upd EXCEPT ![p] = [u EXCEPT !.pc = "insert"]]
       \/ /\ u.quantity # u.oldQuantity
          /\ \A o \in Updaters \ {p} : ~HoldsLock(o, u.id)
          /\ \/ upd' = [upd EXCEPT ![p] =
                          [u EXCEPT !.pc = "insert", !.wrote = TRUE, !.db = TRUE]]
             \/ upd' = [upd EXCEPT ![p] = UpdDone([u EXCEPT !.db = TRUE], 500, "rollback")]
    /\ UNCHANGED <<resources, history, now, cre, snap, rd, ops, lastEmit, view, sweep, reply>>

\* ChangeHistory.create({stock, resourceId: resource.resourceDataId, changeType},
\* { transaction }): createdAt is taken from the clock at the call
UpdInsert(p) ==
    /\ upd[p].pc = "insert"
    /\ LET u == [upd[p] EXCEPT !.db = TRUE] IN
       \/ upd' = [upd EXCEPT ![p] =
                    [u EXCEPT !.pc = "commit",
                              !.entry = [stock |-> u.quantity,
                                         resourceId |-> u.rdid,
                                         changeType |-> changeTypeOf(u.quantity, u.oldQuantity),
                                         createdAt |-> now]]]
       \/ upd' = [upd EXCEPT ![p] = UpdDone(u, 500, "rollback")]
    /\ now' = now + 1
    /\ UNCHANGED <<resources, history, cre, snap, rd, ops, lastEmit, view, sweep, reply>>

\* variant: the UPDATE has no WHERE clause and writes every row
UpdCommitAllRows(p) ==
    /\ upd[p].pc = "commit"
    /\ LET u == [upd[p] EXCEPT !.db = TRUE] IN
       \/ /\ upd' = [upd EXCEPT ![p] =
                       [UpdIdle EXCEPT !.pc = "list", !.id = u.id, !.quantity = u.quantity,
                                       !.db = TRUE, !.committed = TRUE]]
          /\ resources' = IF u.wrote
                          THEN {[r EXCEPT !.quantity = u.quantity] : r \in resources}
                          ELSE resources
          /\ history' = Append(history, u.entry)
       \/ /\ upd' = [upd EXCEPT ![p] = UpdDone(u, 500, "rollback")]
          /\ UNCHANGED <<resources, history>>
    /\ UNCHANGED <<now, cre, snap, rd, ops, lastEmit, view, sweep, reply>>

\* transaction.commit(): the row write (when one was sent) and the history
\* insert become visible together; a fault is caught, the transaction rolled
\* back and the error rethrown to the controller
UpdCommit(p) ==
    /\ upd[p].pc = "commit"
    /\ LET u == [upd[p] EXCEPT !.db = TRUE] IN
       \/ /\ upd' = [upd EXCEPT ![p] =
                       [UpdIdle EXCEPT !.pc = "list", !.id = u.id, !.quantity = u.quantity,
                                       !.db = TRUE, !.committed = TRUE]]
          /\ resources' = IF u.wrote
                          THEN {IF r.id = u.id THEN [r EXCEPT !.quantity = u.quantity] ELSE r
                                : r \in resources}
                          ELSE resources
          /\ history' = Append(history, u.entry)
       \/ /\ upd' = [upd EXCEPT ![p] = UpdDone(u, 500, "rollback")]
          /\ UNCHANGED <<resources, history>>
    /\ UNCHANGED <<now, cre, snap, rd, ops, lastEmit, view, sweep, reply>>

\* variant: the listing sees the writes of transactions still in flight
UpdListDirty(p) ==
    /\ upd[p].pc = "list"
    /\ LET u == [upd[p] EXCEPT !.db = TRUE]
           dirty == {IF \E o \in Updaters : HoldsLock(o, r.id)
                     THEN [r EXCEPT !.quantity =
                             upd[CHOOSE o \in Updaters : HoldsLock(o, r.id)].quantity]
                     ELSE r : r \in resources} IN
       \/ upd' = [upd EXCEPT ![p] =
                    [u EXCEPT !.pc = "emit",
                              !.seen = {enrichResourceWithLevels(r) : r \in dirty}]]
       \/ upd' = [upd EXCEPT ![p] = UpdDone(u, 500, "fault")]
    /\ UNCHANGED <<resources, history, now, cre, snap, rd, ops, lastEmit, view, sweep, reply>>

\* controller: allResources = await getAllResourcesService()
UpdList(p) ==
    /\ upd[p].pc = "list"
    /\ LET u == [upd[p] EXCEPT !.db = TRUE] IN
       \/ upd' = [upd EXCEPT ![p] = [u EXCEPT !.pc = "emit", !.seen = getAllResourcesService]]
       \/ upd' = [upd EXCEPT ![p] = UpdDone(u, 500, "fault")]
    /\ UNCHANGED <<resources, history, now, cre, snap, rd, ops, lastEmit, view, sweep, reply>>

\* variant: the controller answers 200 without emitting
UpdEmitSilent(p) ==
    /\ upd[p].pc = "emit"
    /\ upd' = [upd EXCEPT ![p] = UpdDone(upd[p], 200, "ok")]
    /\ UNCHANGED <<resources, history, now, cre, snap, rd, ops, lastEmit, view, sweep, reply>>

\* controller: global.io.emit('resources:update', ...) and the 200 response
UpdEmit(p) ==
    /\ upd[p].pc = "emit"
    /\ lastEmit' = [sent |-> TRUE, resources |-> upd[p].seen]
    /\ upd' = [upd EXCEPT ![p] = UpdDone([upd[p] EXCEPT !.emits = @ + 1], 200, "ok")]
    /\ UNCHANGED <<resources, history, now, cre, snap, rd, ops, view, sweep, reply>>

\* ----------------------------------------------------------- create request
CreIdle == [pc |-> "idle", rdid |-> 0, quantity |-> 0, newId |-> 0,
            status |-> 0, result |-> "", db |-> FALSE]

\* variant: the controller has no branch for RESOURCE_ALREADY_EXISTS
CreateStatusNoConflict(result) ==
    CASE result = "RESOURCE_DATA_ID_REQUIRED" -> 400
      [] result = "INVALID_QUANTITY" -> 400
      [] result = "RESOURCE_DATA_NOT_FOUND" -> 404
      [] OTHER -> 201

\* createResourceController: the HTTP status of a service result
CreateStatus(result) ==
    CASE result = "RESOURCE_DATA_ID_REQUIRED" -> 400
      [] result = "INVALID_QUANTITY" -> 400
      [] result = "RESOURCE_DATA_NOT_FOUND" -> 404
      [] result = "RESOURCE_ALREADY_EXISTS" -> 409
      [] OTHER -> 201

\* errorHandler: the HTTP status of a thrown storage error
ErrorStatus(name) ==
    IF name = "SequelizeUniqueConstraintError" THEN 409 ELSE 500

CreDone(c, status, result) ==
    [c EXCEPT !.pc = "done", !.status = status, !.result = result]

\* variant: the quantity is checked before the resourceDataId
CreStartQuantityFirst(p) ==
    /\ Free(cre[p])
    /\ p = "c2" => ~Free(cre["c1"])
    /\ ops < MaxOps
    /\ ops' = ops + 1
    /\ \E t \in TypeInputs, q \in QtyInputs :
         LET c == [CreIdle EXCEPT !.rdid = t, !.quantity = q] IN
         cre' = [cre EXCEPT ![p] =
                   IF q = absent THEN CreDone(c, 400, "quantity is required")
                   ELSE IF invalidQuantity(q)
                        THEN CreDone(c, CreateStatus("INVALID_QUANTITY"), "INVALID_QUANTITY")
                   ELSE IF t = absent THEN CreDone(c, 400, "resourceDataId is required")
                   ELSE [c EXCEPT !.pc = "findData"]]
    /\ UNCHANGED <<resources, history, now, upd, snap, rd, lastEmit, view, sweep, reply>>

\* controller checks (resourceDataId, quantity present), then the service's
\* own checks of the two fields, all before the first storage call
CreStart(p) ==
    /\ Free(cre[p])
    /\ p = "c2" => ~Free(cre["c1"])
    /\ ops < MaxOps
    /\ ops' = ops + 1
    /\ \E t \in TypeInputs, q \in QtyInputs :
         LET c == [CreIdle EXCEPT !.rdid = t, !.quantity = q] IN
         cre' = [cre EXCEPT ![p] =
                   IF t = absent THEN CreDone(c, 400, "resourceDataId is required")
                   ELSE IF q = absent THEN CreDone(c, 400, "quantity is required")
                   ELSE IF invalidQuantity(q)
                        THEN CreDone(c, CreateStatus("INVALID_QUANTITY"), "INVALID_QUANTITY")
                   ELSE [c EXCEPT !.pc = "findData"]]
    /\ UNCHANGED <<resources, history, now, upd, snap, rd, lastEmit, view, sweep, reply>>

\* ResourceData.findByPk(resourceDataId)
CreFindData(p) ==
    /\ cre[p].pc = "findData"
    /\ LET c == [cre[p] EXCEPT !.db = TRUE] IN
       \/ /\ c.rdid \notin Catalog
          /\ cre' = [cre EXCEPT ![p] =
                       CreDone(c, CreateStatus("RESOURCE_DATA_NOT_FOUND"), "RESOURCE_DATA_NOT_FOUND")]
       \/ /\ c.rdid \in Catalog
          /\ cre' = [cre EXCEPT ![p] = [c EXCEPT !.pc = "findOne"]]
       \/ cre' = [cre EXCEPT ![p] = CreDone(c, ErrorStatus("SequelizeDatabaseError"), "fault")]
    /\ UNCHANGED <<resources, history, now, upd, snap, rd, ops, lastEmit, view, sweep, reply>>

\* Resource.findOne({ where: { resourceDataId } })
CreFindOne(p) ==
    /\ cre[p].pc = "findOne"
    /\ LET c == [cre[p] EXCEPT !.db = TRUE] IN
       \/ /\ TypeTracked(c.rdid)
          /\ cre' = [cre EXCEPT ![p] =
                       CreDone(c, CreateStatus("RESOURCE_ALREADY_EXISTS"), "RESOURCE_ALREADY_EXISTS")]
       \/ /\ ~TypeTracked(c.rdid)
          /\ cre' = [cre EXCEPT ![p] = [c EXCEPT !.pc = "insert"]]
       \/ cre' = [cre EXCEPT ![p] = CreDone(c, ErrorStatus("SequelizeDatabaseError"), "fault")]
    /\ UNCHANGED <<resources, history, now, upd, snap, rd, ops, lastEmit, view, sweep, reply>>

\* variant: the table has no uniqueness constraint
NoUniqueConstraint(t) == FALSE

\* the uniqueness constraint of Resource.resourceDataId: an insert for a type
\* that already has a row is refused by the store
UniqueViolation(t) == TypeTracked(t)

\* Resource.create({ resourceDataId, quantity })
CreInsert(p) ==
    /\ cre[p].pc = "insert"
    /\ LET c == [cre[p] EXCEPT !.db = TRUE] IN
       \/ /\ UniqueViolation(c.rdid)
          /\ cre' = [cre EXCEPT ![p] =
                       CreDone(c, ErrorStatus("SequelizeUniqueConstraintError"), "unique")]
          /\ UNCHANGED resources
       \/ /\ ~UniqueViolation(c.rdid)
          /\ resources' = resources \cup
                 {[id |-> NextId, resourceDataId |-> c.rdid, quantity |-> c.quantity]}
          /\ cre' = [cre EXCEPT ![p] = [c EXCEPT !.pc = "reload", !.newId = NextId]]
       \/ /\ cre' = [cre EXCEPT ![p] = CreDone(c, ErrorStatus("SequelizeDatabaseError"), "fault")]
          /\ UNCHANGED resources
    /\ UNCHANGED <<history, now, upd, snap, rd, ops, lastEmit, view, sweep, reply>>

\* Resource.findByPk(resource.id, include) and the 201 response
CreReload(p) ==
    /\ cre[p].pc = "reload"
    /\ LET c == [cre[p] EXCEPT !.db = TRUE] IN
       \/ cre' = [cre EXCEPT ![p] = CreDone(c, CreateStatus("created"), "created")]
       \/ cre' = [cre EXCEPT ![p] = CreDone(c, ErrorStatus("SequelizeDatabaseError"), "fault")]
    /\ UNCHANGED <<resources, history, now, upd, snap, rd, ops, lastEmit, view, sweep, reply>>

\* --------------------------------------------------------- monitoring cron
SnapIdle == [pc |-> "idle", rows |-> {}, pending |-> {}, at |-> 0 - 1]

\* variant: the row is keyed to the Resource id
SnapEntryById(r, t) ==
    [stock |-> r.quantity, resourceId |-> r.id,
     changeType |-> NoChange, createdAt |-> t]

\* the ChangeHistory row the cron builds for one Resource row
SnapEntry(r, t) ==
    [stock |-> r.quantity, resourceId |-> r.resourceDataId,
     changeType |-> NoChange, createdAt |-> t]

\* the firing: Resource.findAll({ include })
SnapRead ==
    /\ snap.pc = "idle"
    /\ ops < MaxOps
    /\ ops' = ops + 1
    /\ \/ snap' = [SnapIdle EXCEPT !.pc = "read", !.rows = resources]
       \/ snap' = SnapIdle
    /\ UNCHANGED <<resources, history, now, upd, cre, rd, lastEmit, view, sweep, reply>>

\* variant: no early return for an empty resource set; Promise.all of no
\* insert resolves at once
SnapCreateNoCheck ==
    /\ snap.pc = "read"
    /\ snap' = [snap EXCEPT !.pc = IF snap.rows = {} THEN "emit" ELSE "inserting",
                            !.at = now,
                            !.pending = {[row |-> r.id,
                                          entry |-> [stock |-> r.quantity,
                                                     resourceId |-> r.resourceDataId,
                                                     changeType |-> NoChange,
                                                     createdAt |-> now]]
                                         : r \in snap.rows}]
    /\ now' = now + 1
    /\ UNCHANGED <<resources, history, upd, cre, rd, ops, lastEmit, view, sweep, reply>>

\* after the read: return when there is no resource, else start one
\* ChangeHistory.create per resource, all in the same synchronous map (one
\* clock reading); the inserts are then in flight independently
SnapCreate ==
    /\ snap.pc = "read"
    /\ IF snap.rows = {}
       THEN /\ snap' = SnapIdle
            /\ UNCHANGED now
       ELSE /\ snap' = [snap EXCEPT !.pc = "inserting", !.at = now,
                                    !.pending = {[row |-> r.id, entry |-> SnapEntry(r, now)]
                                                 : r \in snap.rows}]
            /\ now' = now + 1
    /\ UNCHANGED <<resources, history, upd, cre, rd, ops, lastEmit, view, sweep, reply>>

\* variant: the inserts share one transaction, a failure removes the entries
\* the firing has inserted
SnapInsertAllOrNothing ==
    /\ snap.pc \in {"inserting", "failed"}
    /\ \E e \in snap.pending :
         \/ /\ history' = Append(history, e.entry)
            /\ snap' = [snap EXCEPT !.pending = @ \ {e},
                                    !.pc = IF snap.pc = "inserting" /\ snap.pending = {e}
                                           THEN "emit" ELSE @]
         \/ /\ history' = SelectSeq(history, LAMBDA x :
                                ~(x.createdAt = snap.at /\ x.changeType = NoChange))
            /\ snap' = [snap EXCEPT !.pending = {}, !.pc = "failed"]
    /\ UNCHANGED <<resources, now, upd, cre, rd, ops, lastEmit, view, sweep, reply>>

\* one of the inserts in flight reaches the store (autocommit), or fails;
\* the first failure rejects Promise.all and the handler logs and returns,
\* while the other inserts stay in flight
SnapInsert ==
    /\ snap.pc \in {"inserting", "failed"}
    /\ \E e \in snap.pending :
         \/ /\ history' = Append(history, e.entry)
            /\ snap' = [snap EXCEPT !.pending = @ \ {e},
                                    !.pc = IF snap.pc = "inserting" /\ snap.pending = {e}
                                           THEN "emit" ELSE @]
         \/ /\ UNCHANGED history
            /\ snap' = [snap EXCEPT !.pending = @ \ {e}, !.pc = "failed"]
    /\ UNCHANGED <<resources, now, upd, cre, rd, ops, lastEmit, view, sweep, reply>>

\* Promise.all resolved: io.emit('resources:update', { resources: the rows
\* read at the firing, as plain objects })
SnapEmit ==
    /\ snap.pc = "emit"
    /\ lastEmit' = [sent |-> TRUE,
                    resources |-> {[id |-> r.id, quantity |-> r.quantity,
                                    resourceDataId |-> r.resourceDataId, status |-> "none"]
                                   : r \in snap.rows}]
    /\ snap' = SnapIdle
    /\ UNCHANGED <<resources, history, now, upd, cre, rd, ops, view, sweep, reply>>

\* a failed firing ends once its inserts in flight have settled
SnapEnd ==
    /\ snap.pc = "failed"
    /\ snap.pending = {}
    /\ snap' = SnapIdle
    /\ UNCHANGED <<resources, history, now, upd, cre, rd, ops, lastEmit, view, sweep, reply>>

\* ------------------------------------------------------ history cleanup cron
\* the clock is read in hours; the cleanup keeps thirty days of entries
HoursPerDay == 24
RetentionDays == 30
RetentionHours == RetentionDays * HoursPerDay

\* hours that pass before a firing of the cleanup: an hour less than the
\* retention window, or the window to the hour
Elapsed == {RetentionHours - 1, RetentionHours}

\* runs counts the firings, failures those that logged an error
NoSweep == [result |-> "none", deleted |-> 0, runs |-> 0, failures |-> 0]

\* variant: Op.lte in place of Op.lt
destroyUpTo(h, cutoff) == SelectSeq(h, LAMBDA e : ~(e.createdAt <= cutoff))

\* ChangeHistory.destroy({ where: { createdAt: { [Op.lt]: cutoff } } }): the
\* committed rows that remain
destroyOlder(h, cutoff) == SelectSeq(h, LAMBDA e : ~(e.createdAt < cutoff))

\* variant: the callback has no try/catch; the rejection of destroy is
\* unhandled and ends the process, after which nothing fires
SweepUncaught ==
    /\ sweep.result # "crashed"
    /\ ops < MaxOps
    /\ ops' = ops + 1
    /\ \E d \in Elapsed :
         /\ now' = now + d
         /\ \/ /\ history' = destroyOlder(history, now' - RetentionHours)
               /\ sweep' = [result |-> "deleted", deleted |-> Len(history) - Len(history'),
                            runs |-> sweep.runs + 1, failures |-> sweep.failures]
            \/ /\ UNCHANGED history
               /\ sweep' = [result |-> "crashed", deleted |-> 0, runs |-> sweep.runs + 1,
                            failures |-> sweep.failures + 1]
    /\ UNCHANGED <<resources, upd, cre, snap, rd, lastEmit, view, reply>>

\* a firing of the cleanup: thirtyDaysAgo is the clock reading less thirty
\* days, one DELETE removes the older rows and their number is logged; a
\* storage fault is caught and logged, and the task stays scheduled
Sweep ==
    /\ ops < MaxOps
    /\ ops' = ops + 1
    /\ \E d \in Elapsed :
         /\ now' = now + d
         /\ \/ /\ history' = destroyOlder(history, now' - RetentionHours)
               /\ sweep' = [result |-> "deleted", deleted |-> Len(history) - Len(history'),
                            runs |-> sweep.runs + 1, failures |-> sweep.failures]
            \/ /\ UNCHANGED history
               /\ sweep' = [result |-> "failed", deleted |-> 0, runs |-> sweep.runs + 1,
                            failures |-> sweep.failures + 1]
    /\ UNCHANGED <<resources, upd, cre, snap, rd, lastEmit, view, reply>>

\* ------------------------------------------------------------ read requests
RdIdle == [pc |-> "idle", category |-> "", status |-> 0, db |-> FALSE]

\* variant: Resource.findAll runs before the category is checked
ListByCategoryLate ==
    /\ Free(rd)
    /\ ops < MaxOps
    /\ ops' = ops + 1
    /\ \E category \in CategoryInputs :
         rd' = [RdIdle EXCEPT !.pc = "done", !.category = category, !.db = TRUE,
                              !.status = IF category \notin validCategories THEN 400 ELSE 200]
    /\ UNCHANGED <<resources, history, now, upd, cre, snap, lastEmit, view, sweep, reply>>

\* getResourcesByCategoryService / Controller: the category is checked against
\* validCategories before Resource.findAll
ListByCategory ==
    /\ Free(rd)
    /\ ops < MaxOps
    /\ ops' = ops + 1
    /\ \E category \in CategoryInputs :
         rd' = IF category \notin validCategories
               THEN [RdIdle EXCEPT !.pc = "done", !.category = category, !.status = 400]
               ELSE [RdIdle EXCEPT !.pc = "done", !.category = category, !.status = 200,
                                   !.db = TRUE]
    /\ UNCHANGED <<resources, history, now, upd, cre, snap, lastEmit, view, sweep, reply>>

\* ChangeHistory.findAll({ where: { resourceId }, order: createdAt DESC, limit })
\* over the committed rows h
RECURSIVE SortDesc(_, _)
SortDesc(h, S) ==
    IF S = {} THEN <<>>
    ELSE LET i == CHOOSE i \in S : \A j \in S :
                      \/ h[j].createdAt < h[i].createdAt
                      \/ (h[j].createdAt = h[i].createdAt /\ j <= i)
         IN <<h[i]>> \o SortDesc(h, S \ {i})

findAllHistory(h, resourceId, limit) ==
    LET all == SortDesc(h, {i \in DOMAIN h : h[i].resourceId = resourceId})
    IN IF Len(all) <= limit THEN all ELSE SubSeq(all, 1, limit)

\* variant: the type is looked up among the Resource rows
getResourceHistoryOfTracked(resourceId, limit) ==
    IF ~TypeTracked(resourceId)
    THEN [status |-> 404, history |-> <<>>]
    ELSE [status |-> 200, history |-> findAllHistory(history, resourceId, limit)]

\* getResourceHistoryService(resourceId, limit): RESOURCE_NOT_FOUND (404) for a
\* type that is not in the catalog, else the type's newest entries
getResourceHistoryService(resourceId, limit) ==
    IF resourceId \notin Catalog
    THEN [status |-> 404, history |-> <<>>]
    ELSE [status |-> 200, history |-> findAllHistory(history, resourceId, limit)]

NoReply == [op |-> "none", resourceId |-> 0, status |-> 0]

\* variant: ORDER BY createdAt DESC, the newest entry first
findAllWindowDesc(h, resourceId, since) ==
    SortDesc(h, {i \in DOMAIN h : h[i].resourceId = resourceId /\ h[i].createdAt >= since})

\* ChangeHistory.findAll({ where: { resourceId, createdAt: { [Op.gte]: since } },
\* order: createdAt ASC }) over the committed rows h
findAllWindow(h, resourceId, since) ==
    LET desc == SortDesc(h, {i \in DOMAIN h :
                               h[i].resourceId = resourceId /\ h[i].createdAt >= since})
    IN [k \in 1..Len(desc) |-> desc[Len(desc) + 1 - k]]

\* statistics cover the last 24 hours
StatsWindowHours == 24

RECURSIVE SumSeq(_)
SumSeq(values) == IF values = <<>> THEN 0 ELSE Head(values) + SumSeq(Tail(values))

\* Math.round of the quotient n / d, d > 0: the nearest integer, halves upwards
RoundDiv(n, d) == (2 * n + d) \div (2 * d)

\* variant: the trend turns at 5 percent, not beyond it
trendAtFive(current, firstValue) ==
    IF firstValue # 0 /\ (current - firstValue) * 100 >= 5 * firstValue THEN "increasing"
    ELSE IF firstValue # 0 /\ (current - firstValue) * 100 <= (0 - 5) * firstValue
         THEN "decreasing"
    ELSE "stable"

\* percentageChange = firstValue !== 0 ? (change / firstValue) * 100 : 0, then
\* > 5 increasing, < -5 decreasing.  Stocks are non-negative integers, for
\* which the double-precision quotient times 100 compares with 5 and -5 as the
\* exact fraction does.
trendOf(current, firstValue) ==
    IF firstValue # 0 /\ (current - firstValue) * 100 > 5 * firstValue THEN "increasing"
    ELSE IF firstValue # 0 /\ (current - firstValue) * 100 < (0 - 5) * firstValue
         THEN "decreasing"
    ELSE "stable"

\* the stats object built from a non-empty window's rows, oldest first;
\* percentageChange is held in hundredths of a percent (it is rounded to two
\* decimals)
statsOfRows(window) ==
    LET values == [k \in 1..Len(window) |-> window[k].stock]
        current == values[Len(values)]
        firstValue == values[1]
    IN [status |-> 200,
        stats |-> [average |-> RoundDiv(SumSeq(values), Len(values)),
                   min |-> CHOOSE v \in {values[k] : k \in 1..Len(values)} :
                              \A k \in 1..Len(values) : v <= values[k],
                   max |-> CHOOSE v \in {values[k] : k \in 1..Len(values)} :
                              \A k \in 1..Len(values) : v >= values[k],
                   current |-> current,
                   trend |-> trendOf(current, firstValue),
                   percentageChange |->
                       IF firstValue # 0
                       THEN RoundDiv((current - firstValue) * 10000, firstValue)
                       ELSE 0,
                   totalRecords |-> Len(window)]]

\* variant: an empty window is reported as not found
statsOfNoEmpty(window) ==
    IF window = <<>> THEN [status |-> 404] ELSE statsOfRows(window)

\* history.length === 0: the zero-valued stats object, which has no
\* percentageChange; else the statistics of the rows
statsOf(window) ==
    IF window = <<>>
    THEN [status |-> 200,
          stats |-> [average |-> 0, min |-> 0, max |-> 0, current |-> 0,
                     trend |-> "stable", totalRecords |-> 0]]
    ELSE statsOfRows(window)

\* getHistoryStatsService(resourceId) and its controller, the clock reading t
getHistoryStatsService(resourceId, t) ==
    IF resourceId \notin Catalog
    THEN [status |-> 404]
    ELSE statsOf(findAllWindow(history, resourceId, t - StatsWindowHours))

\* GET /resources/:id/stats
GetStats ==
    \E resourceId \in TypeInputs \ {absent} :
        /\ reply' = [op |-> "stats", resourceId |-> resourceId] @@
                     getHistoryStatsService(resourceId, now)
        /\ UNCHANGED <<resources, history, now, upd, cre, snap, rd, ops, lastEmit, view, sweep>>

\* limit query parameter: absent (the default of 100 applies), 1 or 2
LimitInputs == {absent, 1, 2}

DefaultLimit == 100

\* GET /resources/:id/history?limit=: limit ? Number(limit) : 100
GetHistory ==
    \E resourceId \in TypeInputs \ {absent}, limit \in LimitInputs :
        /\ reply' = [op |-> "history", resourceId |-> resourceId, limit |-> limit] @@
                     getResourceHistoryService(resourceId,
                                               IF limit = absent THEN DefaultLimit ELSE limit)
        /\ UNCHANGED <<resources, history, now, upd, cre, snap, rd, ops, lastEmit, view, sweep>>

\* GET /resources/alerts
GetCritical ==
    /\ reply' = [op |-> "alerts", resourceId |-> 0, status |-> 200,
                 resources |-> getCriticalResourcesService,
                 count |-> Cardinality(getCriticalResourcesService)]
    /\ UNCHANGED <<resources, history, now, upd, cre, snap, rd, ops, lastEmit, view, sweep>>

\* ------------------------------------------------------- derived status
\* the enriched view of a resource of one category as its quantity grows
ProbeMax == OxygenCritical + 1

ViewOf(category, quantity) ==
    [category |-> category, quantity |-> quantity,
     status |-> deriveStatus(quantity, getLevelsByCategory(category))]

RaiseQuantity ==
    /\ view.quantity < ProbeMax
    /\ view' = ViewOf(view.category, view.quantity + 1)
    /\ UNCHANGED <<resources, history, now, upd, cre, snap, rd, ops, lastEmit, sweep, reply>>

\* ------------------------------------------------------------ specification
\* the store after seeding: empty, or one Resource row per catalog type
SeededResources ==
    {{}} \cup {{[id |-> 1, resourceDataId |-> 2, quantity |-> a],
                [id |-> 2, resourceDataId |-> 1, quantity |-> a]} : a \in 0..MaxQty}

NoView == [category |-> "", quantity |-> 0, status |-> ""]

Init ==
    /\ resources \in SeededResources
    /\ ops = 0
    /\ history = <<>>
    /\ now = 0
    /\ upd = [p \in Updaters |-> UpdIdle]
    /\ cre = [p \in Creators |-> CreIdle]
    /\ snap = SnapIdle
    /\ rd = RdIdle
    /\ lastEmit = [sent |-> FALSE, resources |-> {}]
    /\ view = NoView
    /\ sweep = NoSweep
    /\ reply = NoReply

Next ==
    \/ \E p \in Updaters : UpdStart(p)
    \/ \E p \in Updaters : UpdFind(p)
    \/ \E p \in Updaters : UpdBegin(p)
    \/ \E p \in Updaters : UpdSave(p)
    \/ \E p \in Updaters : UpdInsert(p)
    \/ \E p \in Updaters : UpdCommit(p)
    \/ \E p \in Updaters : UpdList(p)
    \/ \E p \in Updaters : UpdEmit(p)
    \/ \E p \in Creators : CreStart(p)
    \/ \E p \in Creators : CreFindData(p)
    \/ \E p \in Creators : CreFindOne(p)
    \/ \E p \in Creators : CreInsert(p)
    \/ \E p \in Creators : CreReload(p)
    \/ SnapRead
    \/ SnapCreate
    \/ SnapInsert
    \/ SnapEmit
    \/ SnapEnd
    \/ ListByCategory

Spec == Init /\ [][Next]_vars

\* the service together with the history cleanup cron, started on the empty
\* store, or on the seeded store at quantity 0 when the ledger already holds
\* the entry the monitoring cron wrote at hour 0 for one of the resources
SeededHistory ==
    IF resources = {} THEN {<<>>}
    ELSE {<<SnapEntry(r, 0)>> : r \in {x \in resources : x.id = 1}}

InitRetention ==
    /\ resources \in {R \in SeededResources : \A r \in R : r.quantity = 0}
    /\ ops = 0
    /\ history \in SeededHistory
    /\ now = 1
    /\ upd = [p \in Updaters |-> UpdIdle]
    /\ cre = [p \in Creators |-> CreIdle]
    /\ snap = SnapIdle
    /\ rd = RdIdle
    /\ lastEmit = [sent |-> FALSE, resources |-> {}]
    /\ view = NoView
    /\ sweep = NoSweep
    /\ reply = NoReply

NextRetention == Next \/ Sweep

SpecRetention == InitRetention /\ [][NextRetention]_vars

\* the two cron jobs alone; every awaited call of a firing settles
NextSchedule ==
    \/ SnapRead
    \/ SnapCreate
    \/ SnapInsert
    \/ SnapEmit
    \/ SnapEnd
    \/ Sweep

SpecSchedule ==
    /\ InitRetention
    /\ [][NextSchedule]_vars
    /\ WF_vars(SnapCreate)
    /\ WF_vars(SnapInsert)
    /\ WF_vars(SnapEmit)
    /\ WF_vars(SnapEnd)

\* the history reads alone, over a ledger of up to MaxEntries entries of two
\* types; the entries of one type carry distinct createdAt (each create call
\* reads the clock anew), in any insertion order
StockInputs == {0, 19, 20, 21}

StatsNow == 2 * StatsWindowHours

LedgerTimes ==
    {StatsNow - StatsWindowHours - 1, StatsNow - StatsWindowHours, StatsNow - 1, StatsNow}

LedgerEntries ==
    [stock : StockInputs, resourceId : {1, 2}, changeType : {NoChange},
     createdAt : LedgerTimes]

Ledgers ==
    {h \in UNION {[1..n -> LedgerEntries] : n \in 0..MaxEntries} :
        \A i, j \in DOMAIN h :
            (h[i].resourceId = h[j].resourceId /\ h[i].createdAt = h[j].createdAt) => i = j}

InitReads ==
    /\ resources \in {R \in SeededResources : \A r \in R : r.quantity = 0}
    /\ ops = 0
    /\ history \in Ledgers
    /\ now = StatsNow
    /\ upd = [p \in Updaters |-> UpdIdle]
    /\ cre = [p \in Creators |-> CreIdle]
    /\ snap = SnapIdle
    /\ rd = RdIdle
    /\ lastEmit = [sent |-> FALSE, resources |-> {}]
    /\ view = NoView
    /\ sweep = NoSweep
    /\ reply = NoReply

NextReads == GetStats \/ GetHistory

SpecReads == InitReads /\ [][NextReads]_vars

\* the alerts read alone, over stores that track any of the catalog types at
\* a quantity around the levels of its category
StoreQuantities(t) ==
    LET levels == getLevelsByCategory(CategoryOf(t))
    IN {levels.minimumLevel, levels.criticalLevel, levels.criticalLevel + 1}

Stores ==
    {{[id |-> t, resourceDataId |-> t, quantity |-> q[t]] : t \in T} :
        T \in SUBSET Catalog,
        q \in [Catalog -> UNION {StoreQuantities(t) : t \in Catalog}]}

InitAlerts ==
    /\ resources \in {R \in Stores : \A r \in R : r.quantity \in StoreQuantities(r.resourceDataId)}
    /\ ops = 0
    /\ history = <<>>
    /\ now = 0
    /\ upd = [p \in Updaters |-> UpdIdle]
    /\ cre = [p \in Creators |-> CreIdle]
    /\ snap = SnapIdle
    /\ rd = RdIdle
    /\ lastEmit = [sent |-> FALSE, resources |-> {}]
    /\ view = NoView
    /\ sweep = NoSweep
    /\ reply = NoReply

NextAlerts == GetCritical

SpecAlerts == InitAlerts /\ [][NextAlerts]_vars

\* the level policy alone: a resource of any category, from quantity 0 upwards
InitLevels ==
    /\ resources = {}
    /\ ops = 0
    /\ history = <<>>
    /\ now = 0
    /\ upd = [p \in Updaters |-> UpdIdle]
    /\ cre = [p \in Creators |-> CreIdle]
    /\ snap = SnapIdle
    /\ rd = RdIdle
    /\ lastEmit = [sent |-> FALSE, resources |-> {}]
    /\ sweep = NoSweep
    /\ reply = NoReply
    /\ \E category \in validCategories : view = ViewOf(category, 0)

NextLevels == RaiseQuantity

SpecLevels == InitLevels /\ [][NextLevels]_vars

\* ------------------------------------------------------------------ claims
\* the step of p is the successful commit of its transaction
Commits(p) == upd[p].pc = "commit" /\ upd'[p].pc = "list"

\* C1: an update that fails once its transaction has begun leaves the
\* committed store as it was: inside the transaction no step of the request
\* other than its successful commit changes a Resource row or the ledger, and
\* the failing step itself changes neither.
C1_FailedUpdateAtomic ==
    [][\A p \in Updaters :
         (upd[p].pc \in {"save", "insert", "commit"} /\ upd'[p] # upd[p] /\ ~Commits(p))
         => (resources' = resources /\ history' = history)]_vars

\* an update was rolled back after a storage fault inside its transaction
C1_Witness ==
    \E p \in Updaters : upd[p].pc = "done" /\ upd[p].result = "rollback"

\* C2: the commit of a successful update makes visible, in one step, the
\* resource's quantity overwritten with q and exactly one new history entry with
\* stock q keyed to the resource's type id.
C2_CommitWritesBoth ==
    [][\A p \in Updaters :
         Commits(p)
         => /\ \E r \in resources' :
                 /\ r.id = upd[p].id
                 /\ r.quantity = upd[p].quantity
                 /\ \E e \in {history'[Len(history')]} :
                      e.stock = upd[p].quantity /\ e.resourceId = r.resourceDataId
            /\ Len(history') = Len(history) + 1
            /\ SubSeq(history', 1, Len(history)) = history]_vars

\* C3: at most one Resource row per resource type.
C3_OnePerType ==
    \A r1, r2 \in resources : r1.resourceDataId = r2.resourceDataId => r1 = r2

\* two concurrent creates of one type both passed the existence check and the
\* store refused the second insert
C3_Witness ==
    \E p \in Creators : cre[p].pc = "done" /\ cre[p].result = "unique"

\* C4: right after an update of a resource to q has committed, the history
\* of the resource's type read with limit 1 is one entry whose stock is q.
C4_NewestIsUpdate ==
    [][\A p \in Updaters :
         Commits(p)
         => LET h == findAllHistory(history', upd[p].rdid, 1)
            IN Len(h) = 1 /\ h[1].stock = upd[p].quantity]_vars

\* C5: a create for a type that already has a Resource row ends with the
\* conflict response (or a storage fault) and changes no Resource row and no
\* history entry.
C5_ConflictNoChange ==
    [][\A p \in Creators :
         (cre[p].pc \in {"findOne", "insert"} /\ cre'[p] # cre[p] /\ TypeTracked(cre[p].rdid))
         => /\ cre'[p].pc = "done"
            /\ cre'[p].status = 409 \/ cre'[p].result = "fault"
            /\ resources' = resources
            /\ history' = history]_vars

\* a create was answered 409 by the service's own existence check
C5_Witness ==
    \E p \in Creators :
        /\ cre[p].pc = "done"
        /\ cre[p].status = 409
        /\ cre[p].result = "RESOURCE_ALREADY_EXISTS"
        /\ TypeTracked(cre[p].rdid)

\* a request whose input is invalid
UpdInvalid(u) == u.pc # "idle" /\ (u.quantity = absent \/ u.quantity < 0)
CreInvalid(c) ==
    c.pc # "idle" /\ (c.rdid = absent \/ c.quantity = absent \/ c.quantity < 0)
RdInvalid(r) == r.pc # "idle" /\ r.category \notin {"food", "oxygen", "water", "spare_parts"}

\* C6: a request with invalid input is answered 400 without any storage
\* call, and the step that rejects it changes no Resource row, no history entry
\* and emits no broadcast.
C6_RejectedBeforeStorage ==
    /\ [](/\ \A p \in Updaters : UpdInvalid(upd[p])
               => (upd[p].pc = "done" /\ upd[p].status = 400 /\ ~upd[p].db)
          /\ \A p \in Creators : CreInvalid(cre[p])
               => (cre[p].pc = "done" /\ cre[p].status = 400 /\ ~cre[p].db)
          /\ RdInvalid(rd) => (rd.pc = "done" /\ rd.status = 400 /\ ~rd.db))
    /\ [][((\E p \in Updaters : upd'[p] # upd[p] /\ UpdInvalid(upd'[p]))
           \/ (\E p \in Creators : cre'[p] # cre[p] /\ CreInvalid(cre'[p]))
           \/ (rd' # rd /\ RdInvalid(rd')))
          => (resources' = resources /\ history' = history /\ lastEmit' = lastEmit)]_vars

\* an update and a by-category read were both rejected for their input
C6_Witness ==
    /\ rd.pc = "done" /\ rd.status = 400 /\ rd.category = "fuel"
    /\ \E p \in Updaters : upd[p].pc = "done" /\ upd[p].status = 400

\* C7: as the quantity of a resource of any category grows from 0, its
\* status goes from critical through a non-empty low band to normal: it never
\* passes from critical to normal directly.
C7_ThreeBands ==
    [][~(view.status = "critical" /\ view'.status = "normal")]_vars

\* C8: every stored quantity and every history stock is non-negative, and
\* a request is answered 400 exactly when a required field is absent or its
\* quantity is negative; zero is accepted.
C8_NonNegative ==
    /\ \A r \in resources : r.quantity >= 0
    /\ \A i \in DOMAIN history : history[i].stock >= 0
    /\ \A p \in Updaters : upd[p].pc # "idle" /\ upd[p].status # 0
         => (upd[p].status = 400 <=> (upd[p].quantity = absent \/ upd[p].quantity < 0))
    /\ \A p \in Creators : cre[p].pc # "idle" /\ cre[p].status # 0
         => (cre[p].status = 400
               <=> (cre[p].rdid = absent \/ cre[p].quantity = absent \/ cre[p].quantity < 0))

\* an update to quantity 0 was accepted and recorded
C8_Witness ==
    /\ \E p \in Updaters : upd[p].pc = "done" /\ upd[p].status = 200 /\ upd[p].quantity = 0
    /\ \E i \in DOMAIN history : history[i].stock = 0 /\ history[i].changeType # NoChange
    /\ \E p \in Updaters : upd[p].pc = "done" /\ upd[p].status = 400

\* C9: a firing that read no Resource row ends there: it inserts no history
\* entry and emits no broadcast.
C9_EmptyFiringDoesNothing ==
    /\ [](snap.rows = {} => snap.pc \in {"idle", "read"})
    /\ [][(snap.pc = "read" /\ snap.rows = {} /\ snap' # snap)
          => (snap'.pc = "idle" /\ history' = history /\ lastEmit' = lastEmit)]_vars

\* a firing has read an empty Resource table
C9_Witness ==
    snap.pc = "read" /\ snap.rows = {} /\ resources = {} /\ ~lastEmit.sent

\* the history entries of the firing in progress
FiringEntries ==
    {i \in DOMAIN history :
        history[i].createdAt = snap.at /\ history[i].changeType = NoChange}

\* C10: when all inserts of a firing over n > 0 resources have succeeded, the
\* ledger holds exactly n entries of that firing, one per Resource row read,
\* each keyed to the row's type id with the quantity read.
C10_OneEntryPerResource ==
    snap.pc = "emit"
    => /\ snap.rows # {}
       /\ Cardinality(FiringEntries) = Cardinality(snap.rows)
       /\ \A r \in snap.rows :
            Cardinality({i \in FiringEntries :
                            /\ history[i].resourceId = r.resourceDataId
                            /\ history[i].stock = r.quantity})
            = Cardinality({o \in snap.rows :
                            /\ o.resourceDataId = r.resourceDataId
                            /\ o.quantity = r.quantity})

\* a firing over two resources has inserted its entries, and an update
\* committed after the firing's read
C10_Witness ==
    /\ snap.pc = "emit"
    /\ Cardinality(snap.rows) = 2
    /\ snap.rows # resources

\* C11: the broadcast a firing emits after its insert batch carries the full
\* enriched resource list: every Resource row with the derived status of its
\* category, the shape the update-quantity broadcast carries.
C11_SnapshotBroadcastEnriched ==
    [][(snap.pc = "emit" /\ snap'.pc = "idle")
       => (/\ lastEmit'.sent
           /\ lastEmit'.resources = {enrichResourceWithLevels(r) : r \in snap.rows})]_vars

\* C12: an update answered 200 has emitted exactly one broadcast, whose
\* payload is the enriched list of all Resource rows it read after its commit;
\* an update answered 400, 404 or 500 has emitted none and its response leaves
\* the last broadcast as it was.
C12_UpdateBroadcast ==
    /\ [](\A p \in Updaters :
            /\ upd[p].pc = "done" /\ upd[p].status = 200 => upd[p].emits = 1
            /\ ~(upd[p].pc = "done" /\ upd[p].status = 200) => upd[p].emits = 0)
    /\ [][\A p \in Updaters :
            /\ upd'[p].emits > upd[p].emits
                 => /\ upd[p].pc = "emit"
                    /\ upd'[p].status = 200
                    /\ lastEmit' = [sent |-> TRUE, resources |-> upd[p].seen]
            /\ (upd'[p].pc = "emit" /\ upd[p].pc # "emit")
                 => /\ upd[p].pc = "list"
                    /\ upd'[p].seen = {enrichResourceWithLevels(r) : r \in resources}
            /\ (upd'[p].pc = "list" /\ upd[p].pc # "list") => Commits(p)
            /\ (upd'[p].pc = "done" /\ upd[p].pc # "done" /\ upd'[p].status # 200)
                 => lastEmit' = lastEmit]_vars

\* one update was answered 200 after its broadcast, one 404 and none was
\* emitted for it
C12_Witness ==
    /\ lastEmit.sent
    /\ \E p \in Updaters : upd[p].pc = "done" /\ upd[p].status = 200 /\ upd[p].emits = 1
    /\ \E p \in Updaters : upd[p].pc = "done" /\ upd[p].status = 404 /\ upd[p].emits = 0

\* the step is a firing of the history cleanup
Sweeps == sweep'.runs = sweep.runs + 1

\* C13: a cleanup firing that reads the clock at t deletes exactly the
\* committed history entries created strictly before t - 30 days: every entry
\* created at t - 30 days or later stays, in its place, and no Resource row
\* changes.
C13_SweepStrictlyOlder ==
    [][(Sweeps /\ sweep'.result = "deleted")
       => /\ history' = SelectSeq(history, LAMBDA e : e.createdAt >= now' - RetentionHours)
          /\ \A i \in DOMAIN history :
               history[i].createdAt = now' - RetentionHours
               => \E j \in DOMAIN history' : history'[j] = history[i]
          /\ \A j \in DOMAIN history' : history'[j].createdAt >= now' - RetentionHours
          /\ sweep'.deleted = Len(history) - Len(history')
          /\ resources' = resources]_vars

\* a firing deleted an entry and kept one created exactly thirty days before it
C13_Witness ==
    /\ sweep.result = "deleted"
    /\ sweep.deleted = 1
    /\ \E i \in DOMAIN history : history[i].createdAt = now - RetentionHours

\* C14: the ledger is append-only.  A step that changes it is the commit of
\* an update, appending that update's one entry, or an insert of a snapshot
\* firing, appending one entry, or a cleanup firing, removing entries and
\* leaving the others as they were and in their order; and a request that is
\* answered with a failure has added no entry.
C14_LedgerAppendOnly ==
    /\ [](\A p \in Updaters :
            (upd[p].pc = "done" /\ upd[p].status # 200) => ~upd[p].committed)
    /\ [][\/ history' = history
          \/ \E p \in Updaters :
               /\ Commits(p)
               /\ history' = Append(history, upd[p].entry)
               /\ upd[p].entry.stock = upd[p].quantity
          \/ \E e \in snap.pending :
               /\ snap'.pending = snap.pending \ {e}
               /\ history' = Append(history, e.entry)
          \/ /\ Sweeps
             /\ \E keep \in SUBSET (DOMAIN history) :
                  /\ Len(history') = Cardinality(keep)
                  /\ \A i \in keep :
                       history'[Cardinality({j \in keep : j <= i})] = history[i]]_vars

\* C15: no Resource row is ever deleted or moved to another type, the
\* quantity of an existing row changes only in the commit of an update of that
\* row's id, to that update's quantity, and an update that is answered with a
\* failure has changed no quantity.
C15_QuantityFrame ==
    /\ [][\A r \in resources :
            \E n \in resources' :
               /\ n.id = r.id
               /\ n.resourceDataId = r.resourceDataId
               /\ n.quantity # r.quantity
                    => \E p \in Updaters :
                          Commits(p) /\ upd[p].id = r.id /\ n.quantity = upd[p].quantity]_vars
    /\ [](\A p \in Updaters :
            upd[p].committed => ~(upd[p].pc = "done" /\ upd[p].status \in {400, 404, 500}))

\* an update whose transaction is committed and whose response is still to come
Committed(p) == upd[p].pc \in {"list", "emit"}

\* the ledger entries written by updates
UpdateEntries == {i \in DOMAIN history : history[i].changeType # NoChange}

\* C16: when two updates of different resources have both committed, however
\* their steps interleaved, the ledger holds for each an entry with its quantity
\* keyed to its resource's type, and, no third update having committed, each
\* resource holds the quantity of its own update and the ledger exactly those
\* two update entries.
C16_DifferentResourcesIndependent ==
    (/\ \A p \in Updaters : Committed(p)
     /\ upd["u1"].id # upd["u2"].id)
    => /\ \A p \in Updaters :
            \E i \in UpdateEntries :
               /\ history[i].stock = upd[p].quantity
               /\ history[i].resourceId = Row(upd[p].id).resourceDataId
       /\ Cardinality(UpdateEntries) >= 2
       /\ Cardinality(UpdateEntries) = 2
            => \A p \in Updaters : Row(upd[p].id).quantity = upd[p].quantity

\* two updates of different resources to different quantities have both
\* committed and neither has responded
C16_Witness ==
    /\ \A p \in Updaters : Committed(p)
    /\ upd["u1"].id # upd["u2"].id
    /\ upd["u1"].quantity # upd["u2"].quantity
    /\ Cardinality(UpdateEntries) = 2

\* C17: when two updates of the same resource have both committed (and no
\* other update has), the ledger holds their two entries, the resource holds
\* the quantity of the one that committed last, and that one's entry is the
\* newer of the two.
C17_SameResourceSerialized ==
    (/\ \A p \in Updaters : Committed(p)
     /\ upd["u1"].id = upd["u2"].id
     /\ Cardinality(UpdateEntries) = 2)
    => \E i, j \in UpdateEntries :
          /\ i < j
          /\ Row(upd["u1"].id).quantity = history[j].stock
          /\ history[j].createdAt > history[i].createdAt

\* the entries of a type created within the 24 hours before the clock reading
InWindow(resourceId) ==
    {i \in DOMAIN history :
        /\ history[i].resourceId = resourceId
        /\ history[i].createdAt >= now - StatsWindowHours}

Oldest(W) == CHOOSE i \in W : \A j \in W : history[i].createdAt <= history[j].createdAt

Newest(W) == CHOOSE i \in W : \A j \in W : history[i].createdAt >= history[j].createdAt

\* C18: statistics of a catalog type with no entry in the last 24 hours are
\* a success with totalRecords 0, trend "stable" and every number zero; and
\* when the oldest entry of the window has stock 0, percentageChange is 0 and
\* the trend is "stable" whatever the newest stock.
C18_StatsEmptyAndZeroFirst ==
    (reply.op = "stats" /\ reply.resourceId \in Catalog)
    => /\ reply.status = 200
       /\ InWindow(reply.resourceId) = {}
            => /\ reply.stats.totalRecords = 0
               /\ reply.stats.trend = "stable"
               /\ \A f \in DOMAIN reply.stats \ {"trend"} : reply.stats[f] = 0
       /\ (/\ InWindow(reply.resourceId) # {}
           /\ history[Oldest(InWindow(reply.resourceId))].stock = 0)
            => /\ reply.stats.percentageChange = 0
               /\ reply.stats.trend = "stable"

\* statistics were answered for a type whose only entries are older than 24
\* hours
C18_Witness ==
    /\ reply.op = "stats"
    /\ reply.status = 200
    /\ reply.stats.totalRecords = 0
    /\ \E i \in DOMAIN history :
          history[i].resourceId = reply.resourceId /\ history[i].stock > 0

C20_HistoryNewestFirst ==
    reply.op = "history"
    => LET all == {i \in DOMAIN history : history[i].resourceId = reply.resourceId}
           limit == IF reply.limit = absent THEN 100 ELSE reply.limit
           n == IF Cardinality(all) < limit THEN Cardinality(all) ELSE limit
       IN /\ reply.status = 404 <=> reply.resourceId \notin Catalog
          /\ reply.status \in {200, 404}
          /\ reply.status = 200
               => /\ Len(reply.history) = n
                  /\ \A k \in 1..n :
                       /\ reply.history[k].resourceId = reply.resourceId
                       /\ \E i \in all : history[i] = reply.history[k]
                       /\ k < n => reply.history[k].createdAt > reply.history[k + 1].createdAt
                  /\ \A i \in all :
                       (\E k \in 1..n : reply.history[k] = history[i])
                       \/ (n > 0 /\ history[i].createdAt < reply.history[n].createdAt)

\* the newest entry of a type with two entries and no Resource row was
\* returned, the ledger holding it before the older one
C20_Witness ==
    /\ reply.op = "history"
    /\ reply.status = 200
    /\ ~TypeTracked(reply.resourceId)
    /\ reply.limit = 1
    /\ Len(reply.history) = 1
    /\ \E i, j \in DOMAIN history :
          /\ i < j
          /\ history[i] = reply.history[1]
          /\ history[j].resourceId = reply.resourceId
          /\ history[j].createdAt < history[i].createdAt

\* C21: the alerts read returns exactly the resources of the full enriched
\* list whose status is "critical", those whose quantity is at or below the
\* critical level of their category, and each carries status "critical".
C21_CriticalIsFilteredList ==
    reply.op = "alerts"
    => /\ reply.resources = {e \in getAllResourcesService : e.status = "critical"}
       /\ \A r \in resources :
            (\E e \in reply.resources : e.id = r.id)
            <=> r.quantity <= getLevelsByCategory(CategoryOf(r.resourceDataId)).criticalLevel
       /\ \A e \in reply.resources : e.status = "critical"
       /\ reply.count = Cardinality(reply.resources)

\* the alerts read returned one resource at its critical level and left out
\* one just above it
C21_Witness ==
    /\ reply.op = "alerts"
    /\ \E e \in reply.resources :
          e.quantity = getLevelsByCategory(CategoryOf(e.resourceDataId)).criticalLevel
    /\ \E r \in resources :
          /\ r.quantity = getLevelsByCategory(CategoryOf(r.resourceDataId)).criticalLevel + 1
          /\ \A e \in reply.resources : e.id # r.id

\* C22: a failed firing does not stop the schedule and is not retried.  A
\* firing of either cron job is possible whenever the job is not running,
\* whatever failed before; a snapshot firing that failed ends, without
\* starting an insert again; and after a failed cleanup nothing is deleted
\* until the next firing of the cleanup.
C22_FailedFiringKeepsSchedule ==
    /\ [](ops < MaxOps => (ENABLED Sweep /\ (snap.pc = "idle" => ENABLED SnapRead)))
    /\ (snap.pc = "failed") ~> (snap.pc = "idle")
    /\ [][/\ snap.pc = "failed"
             => /\ snap'.pc \in {"failed", "idle"}
                /\ snap'.pending \subseteq snap.pending
                /\ lastEmit' = lastEmit
          /\ Len(history') < Len(history) => (Sweeps /\ sweep'.result = "deleted")
          /\ (Sweeps /\ sweep'.result = "failed") => history' = history]_vars

\* a cleanup firing deleted an entry after an earlier one had failed
C22_Witness ==
    /\ sweep.failures = 1
    /\ sweep.runs = 2
    /\ sweep.result = "deleted"
    /\ sweep.deleted = 1

\* C23: the change direction of the entry an update commits compares the
\* update's quantity with the quantity the resource holds right before that
\* commit: "increase" if greater, "decrease" if smaller, "update" if equal.
C23_DirectionAgainstPriorQuantity ==
    [][\A p \in Updaters :
         Commits(p)
         => LET prior == Row(upd[p].id).quantity
            IN upd[p].entry.changeType =
                 (IF upd[p].quantity > prior THEN "increase"
                  ELSE IF upd[p].quantity < prior THEN "decrease"
                  ELSE "update")]_vars

\* C24: the inserts of one firing are independent.  A step of the firing's
\* batch settles exactly one insert in flight: it appends that resource's entry
\* or, failing, appends nothing; it never removes or changes an entry already
\* in the ledger and never starts an insert again; and no resource gets more
\* than one entry from the firing.
C24_IndependentInserts ==
    /\ [][(snap.pc \in {"inserting", "failed"} /\ snap'.pending # snap.pending)
          => /\ \E e \in snap.pending :
                  /\ snap'.pending = snap.pending \ {e}
                  /\ history' = history \/ history' = Append(history, e.entry)
             /\ (snap.pc = "failed" \/ history' = history) => snap'.pc \in {"failed", "idle"}]_vars
    /\ [](\A r \in snap.rows :
            Cardinality({i \in FiringEntries : history[i].resourceId = r.resourceDataId})
            + Cardinality({e \in snap.pending : e.row = r.id}) <= 1)

\* a firing over two resources has failed for one of them and its entry for
\* the other is in the ledger
C24_Witness ==
    /\ snap.pc = "failed"
    /\ snap.pending = {}
    /\ Cardinality(snap.rows) = 2
    /\ Cardinality(FiringEntries) = 1

\* no request and no firing is in flight
Quiescent ==
    /\ \A p \in Updaters : Free(upd[p])
    /\ \A p \in Creators : Free(cre[p])
    /\ snap.pc = "idle"

\* C25: once no operation is in flight, the newest history entry of every
\* type that has a Resource row and an entry (written by an update or by a
\* snapshot) has stock equal to the row's current quantity.
C25_NewestEntryIsCurrent ==
    Quiescent
    => \A r \in resources :
         LET h == findAllHistory(history, r.resourceDataId, 1)
         IN Len(h) = 1 => h[1].stock = r.quantity

\* C26: once no operation is in flight, the quantities carried by the last
\* resources:update broadcast are the current committed quantities of the
\* resources it lists.
C26_LastBroadcastIsCurrent ==
    (Quiescent /\ lastEmit.sent)
    => \A e \in lastEmit.resources :
         \A r \in resources : r.id = e.id => r.quantity = e.quantity

\* the quantities of the rows in a set, by row id
QuantitiesOf(rows) == {<<r.id, r.quantity>> : r \in rows}

\* C27: a quantity reaches a resources:update broadcast only once committed.
\* The committed rows change only at the commit of an update (or at the
\* insert of a create); the listing an update broadcasts is read after its own
\* commit and carries committed quantities only, as do the rows a firing
\* reads; a broadcast carries such a listing; and a request that was rolled
\* back or failed before its commit never broadcasts.
C27_BroadcastOnlyCommitted ==
    /\ [][resources' # resources
          => \/ \E p \in Updaters : Commits(p)
             \/ \E c \in Creators : cre[c].pc = "insert" /\ cre'[c].pc = "reload"]_vars
    /\ [][\A p \in Updaters :
            (upd[p].pc = "list" /\ upd'[p].pc = "emit")
            => upd[p].committed /\ QuantitiesOf(upd'[p].seen) = QuantitiesOf(resources)]_vars
    /\ [][(snap.pc = "idle" /\ snap'.pc = "read")
          => QuantitiesOf(snap'.rows) = QuantitiesOf(resources)]_vars
    /\ [][lastEmit' # lastEmit
          => \/ \E p \in Updaters :
                  /\ upd[p].pc = "emit" /\ upd[p].committed
                  /\ QuantitiesOf(lastEmit'.resources) = QuantitiesOf(upd[p].seen)
             \/ /\ snap.pc = "emit"
                /\ QuantitiesOf(lastEmit'.resources) = QuantitiesOf(snap.rows)]_vars
    /\ [](\A p \in Updaters : upd[p].emits > 0 => upd[p].committed)

\* one update was rolled back after its write and another has broadcast a
\* listing that carries no row with the quantity rolled back
C27_Witness ==
    \E p, q \in Updaters :
        /\ upd[p].pc = "done" /\ upd[p].result = "rollback" /\ upd[p].db
        /\ upd[q].pc = "done" /\ upd[q].emits = 1
        /\ lastEmit.sent /\ lastEmit.resources # {}
        /\ \A e \in lastEmit.resources : e.quantity # upd[p].quantity

\* C28: the outcome of a request that violates several preconditions is the
\* first in the fixed order.  A create without resourceDataId is answered
\* "resourceDataId is required" whatever its quantity; one with a
\* resourceDataId and an absent or negative quantity is answered with the
\* quantity error whatever the type; one with a valid quantity and a type
\* outside the catalog is answered not found (a storage fault aside), never
\* conflict; and an update with an absent or negative quantity is answered
\* invalid quantity before any row is looked up.
C28_ErrorPrecedence ==
    /\ \A c \in Creators :
         LET r == cre[c] IN
         r.pc # "idle"
         => /\ r.rdid = absent
               => (r.pc = "done" /\ r.status = 400 /\ ~r.db
                   /\ r.result = "resourceDataId is required")
            /\ (r.rdid # absent /\ invalidQuantity(r.quantity))
               => (r.pc = "done" /\ r.status = 400 /\ ~r.db
                   /\ r.result \in {"quantity is required", "INVALID_QUANTITY"})
            /\ (r.rdid # absent /\ ~invalidQuantity(r.quantity) /\ r.rdid \notin Catalog)
               => \/ r.pc = "findData"
                  \/ r.pc = "done" /\ r.status = 404 /\ r.result = "RESOURCE_DATA_NOT_FOUND"
                  \/ r.pc = "done" /\ r.status = 500 /\ r.result = "fault"
    /\ \A p \in Updaters :
         (upd[p].pc # "idle" /\ invalidQuantity(upd[p].quantity))
         => (upd[p].pc = "done" /\ upd[p].status = 400 /\ ~upd[p].db
             /\ upd[p].result = "INVALID_QUANTITY")

\* a create with a negative quantity for a type outside the catalog was
\* answered with the quantity error, and an update with an invalid quantity
\* was answered invalid quantity while no resource exists at all
C28_Witness ==
    /\ \E c \in Creators :
         /\ cre[c].pc = "done" /\ cre[c].rdid \notin Catalog \cup {absent}
         /\ cre[c].quantity = 0 - 1 /\ cre[c].result = "INVALID_QUANTITY"
    /\ \E p \in Updaters :
         /\ upd[p].pc = "done" /\ upd[p].result = "INVALID_QUANTITY"
    /\ resources = {}

====
